---- MODULE Spec2Model ----
(***************************************************************************)
(* A model of src/chess.rs: the 8x8 board, the single-step move generator  *)
(* (get_ai_move), move application (make_move, switch_turn) and the game   *)
(* loop (play) with its two limits and its empty-candidate-list stop.      *)
(*                                                                         *)
(* Option<T> is modelled as a sequence of length at most one: None is <<>> *)
(* and Some(x) is <<x>>.                                                   *)
(***************************************************************************)
EXTENDS Integers, Sequences, FiniteSets, TLC

VARIABLES board, turn, game_limit, move_limit, move_count, elapsed, pc,
          renders, msgs, mv, cands, touched, applied, log

vars == <<board, turn, game_limit, move_limit, move_count, elapsed, pc,
          renders, msgs, mv, cands, touched, applied, log>>

(***************************************************************************)
(* Bounds of the model and constants of the program                        *)
(***************************************************************************)
\* largest value the sampled elapsed seconds take
MaxElapsed == 1

\* largest small move limit tried (besides the program's own 40)
MaxMoveLimit == 2

\* side of the board: type Board = [[Option<ChessPiece>; 8]; 8]
N == 8

\* main: let game_limit = 300
DefaultGameLimit == 300

\* main: let move_limit = 40
DefaultMoveLimit == 40

(***************************************************************************)
(* Data                                                                    *)
(***************************************************************************)
Idx == 0 .. (N - 1)

Squares == Idx \X Idx

Piece == {"Pawn", "Rook", "Knight", "Bishop", "Queen", "King"}

Color == {"White", "Black"}

None == <<>>

Some(x) == <<x>>

unwrap(o) == o[1]

is_none(o) == o = None

is_some(o) == o # None

ChessPiece(p, c) == [piece |-> p, color |-> c]

AllPieces == {Some(ChessPiece(p, c)) : p \in Piece, c \in Color}

\* a variant of Opposite that names the side itself
Opposite_same(c) == c

\* match self.turn { White => Black, Black => White }
Opposite(c) == IF c = "White" THEN "Black" ELSE "White"

back_rank == <<"Rook", "Knight", "Bishop", "Queen", "King", "Bishop", "Knight", "Rook">>

EmptyBoard == [i \in Idx |-> [j \in Idx |-> None]]

\* a variant of NewBoard with the colours of the two sides exchanged
NewBoard_colours_exchanged ==
  [i \in Idx |-> [j \in Idx |->
     IF i = 1 THEN Some(ChessPiece("Pawn", "White"))
     ELSE IF i = 6 THEN Some(ChessPiece("Pawn", "Black"))
     ELSE IF i = 0 THEN Some(ChessPiece(back_rank[j + 1], "White"))
     ELSE IF i = 7 THEN Some(ChessPiece(back_rank[j + 1], "Black"))
     ELSE None]]

\* Game::new: pawns on rows 1 and 6, back ranks on rows 0 and 7
NewBoard ==
  [i \in Idx |-> [j \in Idx |->
     IF i = 1 THEN Some(ChessPiece("Pawn", "Black"))
     ELSE IF i = 6 THEN Some(ChessPiece("Pawn", "White"))
     ELSE IF i = 0 THEN Some(ChessPiece(back_rank[j + 1], "Black"))
     ELSE IF i = 7 THEN Some(ChessPiece(back_rank[j + 1], "White"))
     ELSE None]]

(***************************************************************************)
(* get_ai_move                                                             *)
(***************************************************************************)
\* a variant of the direction table in which a pawn steps by (1, 0) only
directions_pawn_one_way(p) ==
  CASE p = "Pawn"   -> << <<1, 0>> >>
    [] p = "Rook"   -> << <<1, 0>>, <<-1, 0>>, <<0, 1>>, <<0, -1>> >>
    [] p = "Bishop" -> << <<1, 1>>, <<1, -1>>, <<-1, 1>>, <<-1, -1>> >>
    [] p = "Queen"  -> << <<1, 0>>, <<-1, 0>>, <<0, 1>>, <<0, -1>>,
                          <<1, 1>>, <<1, -1>>, <<-1, 1>>, <<-1, -1>> >>
    [] p = "King"   -> << <<1, 0>>, <<-1, 0>>, <<0, 1>>, <<0, -1>>,
                          <<1, 1>>, <<1, -1>>, <<-1, 1>>, <<-1, -1>> >>
    [] p = "Knight" -> << <<2, 1>>, <<2, -1>>, <<-2, 1>>, <<-2, -1>>,
                          <<1, 2>>, <<1, -2>>, <<-1, 2>>, <<-1, -2>> >>

\* the direction table of a piece kind, in the order the code lists it
directions(p) ==
  CASE p = "Pawn"   -> << <<1, 0>>, <<-1, 0>> >>
    [] p = "Rook"   -> << <<1, 0>>, <<-1, 0>>, <<0, 1>>, <<0, -1>> >>
    [] p = "Bishop" -> << <<1, 1>>, <<1, -1>>, <<-1, 1>>, <<-1, -1>> >>
    [] p = "Queen"  -> << <<1, 0>>, <<-1, 0>>, <<0, 1>>, <<0, -1>>,
                          <<1, 1>>, <<1, -1>>, <<-1, 1>>, <<-1, -1>> >>
    [] p = "King"   -> << <<1, 0>>, <<-1, 0>>, <<0, 1>>, <<0, -1>>,
                          <<1, 1>>, <<1, -1>>, <<-1, 1>>, <<-1, -1>> >>
    [] p = "Knight" -> << <<2, 1>>, <<2, -1>>, <<-2, 1>>, <<-2, -1>>,
                          <<1, 2>>, <<1, -2>>, <<-1, 2>>, <<-1, -2>> >>

\* a variant of InBounds with <= in place of < on the upper side
InBounds_inclusive(ni, nj) == ni >= 0 /\ ni <= N /\ nj >= 0 /\ nj <= N

\* if ni >= 0 && ni < 8 && nj >= 0 && nj < 8
InBounds(ni, nj) == ni >= 0 /\ ni < N /\ nj >= 0 /\ nj < N

\* self.board[i][j]; an index outside the array panics in Rust, the model
\* reads an empty square there so that every index addressed can be recorded
read(b, i, j) == IF i \in Idx /\ j \in Idx THEN b[i][j] ELSE None

\* a variant of Free that lets a piece take any occupied square
Free_any(b, piece, ni, nj) == TRUE

\* a variant of Free that accepts captures only
Free_capture_only(b, piece, ni, nj) ==
  is_some(read(b, ni, nj)) /\ unwrap(read(b, ni, nj)).color # piece.color

\* self.board[ni][nj].is_none() || self.board[ni][nj].unwrap().color != piece.color
Free(b, piece, ni, nj) ==
  is_none(read(b, ni, nj)) \/ unwrap(read(b, ni, nj)).color # piece.color

\* the inner loop over the directions of the piece on (i, j)
DirMoves(b, i, j) ==
  LET piece == unwrap(b[i][j])
      ok(d) == InBounds(i + d[1], j + d[2]) /\ Free(b, piece, i + d[1], j + d[2])
      sel == SelectSeq(directions(piece.piece), ok)
  IN  [k \in 1 .. Len(sel) |-> << <<i, j>>, <<i + sel[k][1], j + sel[k][2]>> >>]

\* for i in 0..8 { for j in 0..8 { ... } }: the squares in the order of the scan
scan == [n \in 1 .. N * N |-> <<(n - 1) \div N, (n - 1) % N>>]

\* if let Some(piece) = self.board[i][j] { if piece.color == self.turn { ... } }
Own(b, t, s) == is_some(b[s[1]][s[2]]) /\ unwrap(b[s[1]][s[2]]).color = t

RECURSIVE Collect(_, _, _)
\* moves.push(...) for the squares sqs[k], sqs[k+1], ... in turn
Collect(b, sqs, k) ==
  IF k > Len(sqs) THEN <<>>
  ELSE DirMoves(b, sqs[k][1], sqs[k][2]) \o Collect(b, sqs, k + 1)

\* the squares that hold a piece of the side to move, in the order of the scan
OwnSquares(b, t) == LET own(s) == Own(b, t, s) IN SelectSeq(scan, own)

\* the vector `moves` when the scan has ended (the singleton set binds the
\* list of squares to its value once)
moves(b, t) ==
  CHOOSE m \in {Collect(b, sqs, 1) : sqs \in {OwnSquares(b, t)}} : TRUE

\* a variant of select that takes the last candidate
select_last(m) == IF m = <<>> THEN None ELSE Some(m[Len(m)])

\* if moves.is_empty() { None } else { Some(moves[0]) }
select(m) == IF m = <<>> THEN None ELSE Some(m[1])

get_ai_move(b, t) == select(moves(b, t))

\* every board index get_ai_move addresses: the squares of the scan and, for a
\* piece of the side to move, the offset squares that passed the bounds test
Addressed(b, t) ==
  Squares \cup
  UNION { LET dirs == directions(unwrap(b[s[1]][s[2]]).piece)
          IN  { <<s[1] + dirs[k][1], s[2] + dirs[k][2]>> :
                  k \in {n \in 1 .. Len(dirs) :
                           InBounds(s[1] + dirs[n][1], s[2] + dirs[n][2])} } :
          s \in {x \in Squares :
                   is_some(b[x[1]][x[2]]) /\ unwrap(b[x[1]][x[2]]).color = t} }

\* a variant of is_checkmate that never reports checkmate
is_checkmate_never(b, t) == FALSE

\* !self.get_ai_move().is_some()
is_checkmate(b, t) == ~ is_some(get_ai_move(b, t))

(***************************************************************************)
(* make_move, switch_turn                                                  *)
(***************************************************************************)
\* a variant of make_move that copies and does not clear the source
make_move_keep_source(b, m) ==
  LET from == m[1]
      to == m[2]
  IN  [b EXCEPT ![to[1]][to[2]] = b[from[1]][from[2]]]

\* a variant of make_move that clears the source before it copies
make_move_clear_first(b, m) ==
  LET from == m[1]
      to == m[2]
      b1 == [b EXCEPT ![from[1]][from[2]] = None]
  IN  [b1 EXCEPT ![to[1]][to[2]] = b1[from[1]][from[2]]]

\* board[to] = board[from]; board[from] = None
make_move(b, m) ==
  LET from == m[1]
      to == m[2]
      b1 == [b EXCEPT ![to[1]][to[2]] = b[from[1]][from[2]]]
  IN  [b1 EXCEPT ![from[1]][from[2]] = None]

\* a variant of switch_turn whose result is Black for either side
switch_turn_to_black(t) == "Black"

\* self.turn = match self.turn { White => Black, Black => White }
switch_turn(t) == IF t = "White" THEN "Black" ELSE "White"

(***************************************************************************)
(* Console output                                                          *)
(***************************************************************************)
\* "Game over! Time limit of {} seconds reached."
TimeMsg(l) == [kind |-> "time_limit", limit |-> l, side |-> "-"]

\* "Game over! Move limit of {} moves reached."
MoveLimitMsg(l) == [kind |-> "move_limit", limit |-> l, side |-> "-"]

\* "Checkmate! {:?} wins!"
CheckmateMsg(c) == [kind |-> "checkmate", limit |-> 0, side |-> c]

\* "Game over! No more moves for {:?}"
NoMovesMsg(c) == [kind |-> "no_moves", limit |-> 0, side |-> c]

(***************************************************************************)
(* play: one action per step of the loop body.  pc is the position in the  *)
(* loop, log the steps taken so far in the current iteration.              *)
(***************************************************************************)
\* a variant of play_time_check that tests the move limit before the time limit
play_time_check_move_limit_first ==
  /\ pc = "time_check"
  /\ \E t \in elapsed .. MaxElapsed :
       /\ elapsed' = t
       /\ IF move_count >= move_limit
          THEN /\ msgs' = Append(msgs, MoveLimitMsg(move_limit))
               /\ pc' = "done"
          ELSE IF t >= game_limit
          THEN /\ msgs' = Append(msgs, TimeMsg(game_limit))
               /\ pc' = "done"
          ELSE /\ msgs' = msgs
               /\ pc' = "move_check"
  /\ log' = <<"time_check">>
  /\ UNCHANGED <<board, turn, game_limit, move_limit, move_count, renders,
                 mv, cands, touched, applied>>

\* a variant of play_time_check with the render at the top of the loop body
play_time_check_display_first ==
  /\ pc = "time_check"
  /\ renders' = renders + 1
  /\ \E t \in elapsed .. MaxElapsed :
       /\ elapsed' = t
       /\ IF t >= game_limit
          THEN /\ msgs' = Append(msgs, TimeMsg(game_limit))
               /\ pc' = "done"
          ELSE /\ msgs' = msgs
               /\ pc' = "move_check"
  /\ log' = <<"time_check">>
  /\ UNCHANGED <<board, turn, game_limit, move_limit, move_count,
                 mv, cands, touched, applied>>

\* if start_time.elapsed().as_secs() >= game_limit { println!; break }
play_time_check ==
  /\ pc = "time_check"
  /\ \E t \in elapsed .. MaxElapsed :
       /\ elapsed' = t
       /\ IF t >= game_limit
          THEN /\ msgs' = Append(msgs, TimeMsg(game_limit))
               /\ pc' = "done"
          ELSE /\ msgs' = msgs
               /\ pc' = "move_check"
  /\ log' = <<"time_check">>
  /\ UNCHANGED <<board, turn, game_limit, move_limit, move_count, renders,
                 mv, cands, touched, applied>>

\* a variant of play_move_check that prints the message and does not break
play_move_check_no_break ==
  /\ pc = "move_check"
  /\ IF move_count >= move_limit
     THEN msgs' = Append(msgs, MoveLimitMsg(move_limit))
     ELSE msgs' = msgs
  /\ pc' = "display"
  /\ log' = Append(log, "move_check")
  /\ UNCHANGED <<board, turn, game_limit, move_limit, move_count, elapsed,
                 renders, mv, cands, touched, applied>>

\* a variant of play_move_check with > in place of >=
play_move_check_strict ==
  /\ pc = "move_check"
  /\ IF move_count > move_limit
     THEN /\ msgs' = Append(msgs, MoveLimitMsg(move_limit))
          /\ pc' = "done"
     ELSE /\ msgs' = msgs
          /\ pc' = "display"
  /\ log' = Append(log, "move_check")
  /\ UNCHANGED <<board, turn, game_limit, move_limit, move_count, elapsed,
                 renders, mv, cands, touched, applied>>

\* if move_count >= move_limit { println!; break }
play_move_check ==
  /\ pc = "move_check"
  /\ IF move_count >= move_limit
     THEN /\ msgs' = Append(msgs, MoveLimitMsg(move_limit))
          /\ pc' = "done"
     ELSE /\ msgs' = msgs
          /\ pc' = "display"
  /\ log' = Append(log, "move_check")
  /\ UNCHANGED <<board, turn, game_limit, move_limit, move_count, elapsed,
                 renders, mv, cands, touched, applied>>

\* self.display()
play_display ==
  /\ pc = "display"
  /\ renders' = renders + 1
  /\ pc' = "checkmate"
  /\ log' = Append(log, "display")
  /\ UNCHANGED <<board, turn, game_limit, move_limit, move_count, elapsed,
                 msgs, mv, cands, touched, applied>>

\* a variant of play_checkmate in which the generator call of is_checkmate
\* leaves the other side to move
play_checkmate_switches_turn ==
  /\ pc = "checkmate"
  /\ cands' = moves(board, turn)
  /\ mv' = get_ai_move(board, turn)
  /\ touched' = Addressed(board, turn)
  /\ turn' = switch_turn(turn)
  /\ IF is_checkmate(board, turn)
     THEN /\ msgs' = Append(msgs, CheckmateMsg(Opposite(turn)))
          /\ pc' = "done"
     ELSE /\ msgs' = msgs
          /\ pc' = "move"
  /\ log' = Append(log, "get_ai_move")
  /\ UNCHANGED <<board, game_limit, move_limit, move_count, elapsed,
                 renders, applied>>

\* if self.is_checkmate() { println!("Checkmate! {:?} wins!", other); break }
play_checkmate ==
  /\ pc = "checkmate"
  /\ cands' = moves(board, turn)
  /\ mv' = get_ai_move(board, turn)
  /\ touched' = Addressed(board, turn)
  /\ IF is_checkmate(board, turn)
     THEN /\ msgs' = Append(msgs, CheckmateMsg(Opposite(turn)))
          /\ pc' = "done"
     ELSE /\ msgs' = msgs
          /\ pc' = "move"
  /\ log' = Append(log, "get_ai_move")
  /\ UNCHANGED <<board, turn, game_limit, move_limit, move_count, elapsed,
                 renders, applied>>

\* a variant of play_move that does not count the move
play_move_not_counted ==
  /\ pc = "move"
  /\ cands' = moves(board, turn)
  /\ mv' = get_ai_move(board, turn)
  /\ IF is_some(get_ai_move(board, turn))
     THEN LET m == unwrap(get_ai_move(board, turn))
          IN  /\ board' = make_move(board, m)
              /\ applied' = Some(m)
              /\ touched' = Addressed(board, turn) \cup {m[1], m[2]}
              /\ turn' = switch_turn(turn)
              /\ move_count' = move_count
              /\ msgs' = msgs
              /\ pc' = "time_check"
              /\ log' = log \o <<"get_ai_move", "make_move", "switch_turn">>
     ELSE /\ msgs' = Append(msgs, NoMovesMsg(turn))
          /\ touched' = Addressed(board, turn)
          /\ pc' = "done"
          /\ log' = Append(log, "get_ai_move")
          /\ UNCHANGED <<board, turn, move_count, applied>>
  /\ UNCHANGED <<game_limit, move_limit, elapsed, renders>>

\* if let Some(mv) = self.get_ai_move() { make_move; switch_turn; move_count += 1 }
\* else { println!("Game over! No more moves for {:?}", self.turn); break }
play_move ==
  /\ pc = "move"
  /\ cands' = moves(board, turn)
  /\ mv' = get_ai_move(board, turn)
  /\ IF is_some(get_ai_move(board, turn))
     THEN LET m == unwrap(get_ai_move(board, turn))
          IN  /\ board' = make_move(board, m)
              /\ applied' = Some(m)
              /\ touched' = Addressed(board, turn) \cup {m[1], m[2]}
              /\ turn' = switch_turn(turn)
              /\ move_count' = move_count + 1
              /\ msgs' = msgs
              /\ pc' = "time_check"
              /\ log' = log \o <<"get_ai_move", "make_move", "switch_turn">>
     ELSE /\ msgs' = Append(msgs, NoMovesMsg(turn))
          /\ touched' = Addressed(board, turn)
          /\ pc' = "done"
          /\ log' = Append(log, "get_ai_move")
          /\ UNCHANGED <<board, turn, move_count, applied>>
  /\ UNCHANGED <<game_limit, move_limit, elapsed, renders>>

Next ==
  \/ play_time_check
  \/ play_move_check
  \/ play_display
  \/ play_checkmate
  \/ play_move

\* the state on entry to play(game_limit, move_limit) for board b, side t
Start(b, t, gl, ml) ==
  /\ board = b
  /\ turn = t
  /\ game_limit = gl
  /\ move_limit = ml
  /\ move_count = 0
  /\ elapsed = 0
  /\ pc = "time_check"
  /\ renders = 0
  /\ msgs = <<>>
  /\ mv = None
  /\ cands = <<>>
  /\ touched = {}
  /\ applied = None
  /\ log = <<>>

\* main: Game::new() then play, the limits drawn from small sets and main's own
Init ==
  \E gl \in (0 .. (MaxElapsed + 1)) \cup {DefaultGameLimit},
     ml \in (0 .. MaxMoveLimit) \cup {DefaultMoveLimit} :
    Start(NewBoard, "White", gl, ml)

Spec == Init /\ [][Next]_vars

\* play runs on one thread to its end: a step that can be taken is taken
FairSpec == Spec /\ WF_vars(Next)

(***************************************************************************)
(* The generator and the loop on boards other than the initial one         *)
(***************************************************************************)
Place(b, sq, o) == [b EXCEPT ![sq[1]][sq[2]] = o]

\* column j filled with pawns of colour c: every pawn is blocked by its own side
PawnColumn(c, j) ==
  [i \in Idx |-> [k \in Idx |-> IF k = j THEN Some(ChessPiece("Pawn", c)) ELSE None]]

\* every square holds the piece o
FullBoard(o) == [i \in Idx |-> [j \in Idx |-> o]]

OnePieceBoards == {Place(EmptyBoard, sq, o) : sq \in Squares, o \in AllPieces}

Anchors == {<<0, 0>>, <<4, 4>>}

Near(a) == {sq \in Squares : /\ sq # a
                             /\ sq[1] - a[1] \in -2 .. 2
                             /\ sq[2] - a[2] \in -2 .. 2}

Pawns == {Some(ChessPiece("Pawn", c)) : c \in Color}

\* a piece on an anchor square and a pawn of either colour within two squares
TwoPieceBoards ==
  UNION { {Place(Place(EmptyBoard, a, o), sq, p) : sq \in Near(a), p \in Pawns} :
          a \in Anchors, o \in AllPieces }

BlockedBoards ==
  {PawnColumn(c, j) : c \in Color, j \in {0, 7}} \cup {FullBoard(o) : o \in AllPieces}

\* a blocked position with one piece replaced
NearlyBlockedBoards ==
  {Place(b, a, o) : b \in BlockedBoards, a \in Anchors, o \in AllPieces}

Boards ==
  {EmptyBoard, NewBoard} \cup OnePieceBoards \cup TwoPieceBoards
    \cup BlockedBoards \cup NearlyBlockedBoards

\* play entered with any of the boards above and either side to move, with a
\* time limit that the sampled seconds may or may not reach
InitAny ==
  \E b \in Boards, t \in Color : Start(b, t, MaxElapsed, MaxMoveLimit)

SpecAny == InitAny /\ [][Next]_vars

(***************************************************************************)
(* make_move and switch_turn called on their own, with any pair of squares *)
(***************************************************************************)
\* self.make_move((src, dst))
call_make_move ==
  /\ pc = "idle"
  /\ \E src \in Squares, dst \in Squares :
       /\ board' = make_move(board, <<src, dst>>)
       /\ applied' = Some(<<src, dst>>)
       /\ touched' = {src, dst}
  /\ pc' = "returned"
  /\ log' = <<"make_move">>
  /\ UNCHANGED <<turn, game_limit, move_limit, move_count, elapsed, renders,
                 msgs, mv, cands>>

\* self.switch_turn()
call_switch_turn ==
  /\ pc = "idle"
  /\ turn' = switch_turn(turn)
  /\ pc' = "returned"
  /\ log' = <<"switch_turn">>
  /\ UNCHANGED <<board, game_limit, move_limit, move_count, elapsed, renders,
                 msgs, mv, cands, touched, applied>>

NextUnit == call_make_move \/ call_switch_turn

UnitBoards ==
  {NewBoard, EmptyBoard} \cup {PawnColumn(c, 0) : c \in Color}
    \cup {Place(NewBoard, <<4, 4>>, o) : o \in AllPieces}

InitUnit ==
  \E b \in UnitBoards, t \in Color :
    /\ board = b
    /\ turn = t
    /\ game_limit = DefaultGameLimit
    /\ move_limit = DefaultMoveLimit
    /\ move_count = 0
    /\ elapsed = 0
    /\ pc = "idle"
    /\ renders = 0
    /\ msgs = <<>>
    /\ mv = None
    /\ cands = <<>>
    /\ touched = {}
    /\ applied = None
    /\ log = <<>>

SpecUnit == InitUnit /\ [][NextUnit]_vars

(***************************************************************************)
(* Properties                                                              *)
(***************************************************************************)
IsPrefix(s, t) == Len(s) <= Len(t) /\ \A k \in 1 .. Len(s) : s[k] = t[k]

Range(s) == {s[k] : k \in 1 .. Len(s)}

\* the steps of one full iteration of the loop body, in the order of the code
IterationOrder ==
  <<"time_check", "move_check", "display", "get_ai_move", "get_ai_move",
    "make_move", "switch_turn">>

\* the steps that come after the two limit checks
LaterSteps == {"display", "get_ai_move", "make_move", "switch_turn"}

\* C1: in every iteration the steps run in the order time limit, move limit,
\* render, generator; once a sample of the seconds reaches game_limit the loop has
\* ended with the time-limit message and nothing else, whether or not
\* move_count >= move_limit; and an iteration that ends on either limit has
\* rendered nothing, generated nothing, applied no move and switched no turn.
C1_PriorityOrder ==
  /\ IsPrefix(log, IterationOrder)
  /\ (log # <<>> /\ elapsed >= game_limit) =>
        /\ pc = "done"
        /\ msgs = <<TimeMsg(game_limit)>>
        /\ log = <<"time_check">>
  /\ (pc = "done" /\ msgs # <<>> /\ msgs[1].kind = "move_limit") =>
        /\ msgs = <<MoveLimitMsg(move_limit)>>
        /\ move_count >= move_limit
        /\ log = <<"time_check", "move_check">>
  /\ (pc = "done" /\ Range(log) \cap LaterSteps = {}) =>
        /\ renders = move_count
        /\ turn = (IF move_count % 2 = 0 THEN "White" ELSE "Black")

\* C1 witness: the time limit ends the loop while the move limit is met as well
C1_Witness ==
  /\ pc = "done"
  /\ msgs = <<TimeMsg(game_limit)>>
  /\ move_count >= move_limit
  /\ move_count > 0
  /\ elapsed >= game_limit

\* C2 as the specification states it: with time limit 300 and move limit 0 the
\* loop stops at once on the move limit, the board rendered exactly once and
\* unchanged.
C2_ScenarioA_RenderedOnce ==
  (game_limit = DefaultGameLimit /\ move_limit = 0 /\ pc = "done") =>
    /\ msgs = <<MoveLimitMsg(0)>>
    /\ renders = 1
    /\ board = NewBoard

\* C2 amended: with time limit 300 and move limit 0 the loop stops in its first
\* iteration on the move limit, the board never rendered, no move applied, the
\* board unchanged and White still to move.
C2_ScenarioA ==
  (game_limit = DefaultGameLimit /\ move_limit = 0 /\ pc = "done") =>
    /\ msgs = <<MoveLimitMsg(0)>>
    /\ log = <<"time_check", "move_check">>
    /\ renders = 0
    /\ move_count = 0
    /\ applied = None
    /\ board = NewBoard
    /\ turn = "White"

\* C2 witness: scenario A has run to its end
C2_Witness ==
  /\ game_limit = DefaultGameLimit
  /\ move_limit = 0
  /\ pc = "done"
  /\ msgs = <<MoveLimitMsg(0)>>

\* the first candidate of White on the initial board: the pawn on (6, 0), its
\* offset (1, 0) blocked by the rook on (7, 0), steps by (-1, 0) to (5, 0)
FirstWhiteMove == << <<6, 0>>, <<5, 0>> >>

\* C3: with move limit 1, a run that ends without the time limit reached has
\* applied exactly one move, White's first candidate, has Black to move, has
\* rendered the board once and has stopped on the move limit at the top of the
\* second iteration.
C3_ScenarioB ==
  (move_limit = 1 /\ pc = "done" /\ elapsed < game_limit) =>
    /\ msgs = <<MoveLimitMsg(1)>>
    /\ log = <<"time_check", "move_check">>
    /\ move_count = 1
    /\ applied = Some(FirstWhiteMove)
    /\ board = Place(Place(NewBoard, <<6, 0>>, None), <<5, 0>>,
                     Some(ChessPiece("Pawn", "White")))
    /\ turn = "Black"
    /\ renders = 1

\* C3 witness: scenario B has run to its end
C3_Witness ==
  /\ move_limit = 1
  /\ pc = "done"
  /\ elapsed < game_limit
  /\ move_count = 1
  /\ msgs = <<MoveLimitMsg(1)>>

(***************************************************************************)
(* The generator as the specification describes it, as sets                *)
(***************************************************************************)
Abs(x) == IF x < 0 THEN -x ELSE x

Steps == (-2 .. 2) \X (-2 .. 2)

\* Pawn {(+1,0), (-1,0)}; Rook the orthogonal unit steps; Bishop the diagonal
\* unit steps; Queen and King all eight unit steps; Knight the eight jumps
Offsets(p) ==
  CASE p = "Pawn"   -> {<<1, 0>>, <<-1, 0>>}
    [] p = "Rook"   -> {d \in Steps : Abs(d[1]) + Abs(d[2]) = 1}
    [] p = "Bishop" -> {d \in Steps : Abs(d[1]) = 1 /\ Abs(d[2]) = 1}
    [] p = "Queen"  -> {d \in Steps : Abs(d[1]) <= 1 /\ Abs(d[2]) <= 1 /\ d # <<0, 0>>}
    [] p = "King"   -> {d \in Steps : Abs(d[1]) <= 1 /\ Abs(d[2]) <= 1 /\ d # <<0, 0>>}
    [] p = "Knight" -> {d \in Steps : {Abs(d[1]), Abs(d[2])} = {1, 2}}

At(b, sq) == b[sq[1]][sq[2]]

\* square sq of b holds a piece of colour c
Holds(b, sq, c) == At(b, sq) # <<>> /\ At(b, sq)[1].color = c

OtherSide(c) == CHOOSE o \in Color : o # c

\* the moves (src, dst) of side t: src holds a piece of t, dst is src plus one
\* offset of that piece's kind, on the board, and not held by t
StepMoves(b, t) ==
  UNION { { <<s, <<s[1] + d[1], s[2] + d[2]>> >> :
              d \in {o \in Offsets(At(b, s)[1].piece) :
                       /\ <<s[1] + o[1], s[2] + o[2]>> \in Squares
                       /\ ~ Holds(b, <<s[1] + o[1], s[2] + o[2]>>, t)} } :
          s \in {x \in Squares : Holds(b, x, t)} }

PieceCount(b) == Cardinality({sq \in Squares : At(b, sq) # <<>>})

\* C4: when an iteration has passed both limit checks and the generator has
\* no move for the side to move, the render step is followed by the checkmate
\* step, which ends the loop with the message naming the other side as the
\* winner; board, side to move and move counter stay as they are.
C4_Checkmate ==
  [][(pc \in {"display", "checkmate"} /\ get_ai_move(board, turn) = <<>>) =>
       /\ board' = board
       /\ turn' = turn
       /\ move_count' = move_count
       /\ pc = "display" => (pc' = "checkmate" /\ msgs' = msgs)
       /\ pc = "checkmate" =>
            /\ pc' = "done"
            /\ msgs' = <<CheckmateMsg(OtherSide(turn))>>]_vars

\* C4 witness: checkmate is reported for Black against a side to move, White,
\* that has pieces on the board, all of them blocked
C4_Witness ==
  /\ pc = "done"
  /\ msgs = <<CheckmateMsg("Black")>>
  /\ turn = "White"
  /\ \E sq \in Squares : Holds(board, sq, "White")

\* C5: every candidate the generator has produced for the board and the side
\* to move has a source square held by that side and a destination square
\* that is empty or held by the other side.
C5_Ownership ==
  pc = "move" =>
    \A k \in 1 .. Len(cands) :
      /\ Holds(board, cands[k][1], turn)
      /\ \/ At(board, cands[k][2]) = <<>>
         \/ Holds(board, cands[k][2], OtherSide(turn))
      /\ ~ Holds(board, cands[k][2], turn)

\* C5 witness: the side to move has a capture among its candidates and a piece
\* of its own next to another of its own
C5_Witness ==
  /\ pc = "move"
  /\ \E k \in 1 .. Len(cands) : Holds(board, cands[k][2], OtherSide(turn))
  /\ \E s \in Squares :
       /\ Holds(board, s, turn)
       /\ s[1] < N - 1
       /\ Holds(board, <<s[1] + 1, s[2]>>, turn)
       /\ At(board, s)[1].piece \in {"Pawn", "Rook", "Queen", "King"}

\* C6: every candidate has source and destination on the board, and every
\* index the generator and make_move have addressed is on the board.
C6_InRange ==
  /\ \A k \in 1 .. Len(cands) : cands[k][1] \in Squares /\ cands[k][2] \in Squares
  /\ touched \subseteq Squares
  /\ applied # <<>> => (applied[1][1] \in Squares /\ applied[1][2] \in Squares)
  /\ mv # <<>> => (mv[1][1] \in Squares /\ mv[1][2] \in Squares)

\* C6 witness: a knight in a corner, six of its eight offsets off the board,
\* has been moved by the loop
C6_Witness ==
  /\ applied # <<>>
  /\ applied[1][1] \in {<<0, 0>>, <<0, N - 1>>, <<N - 1, 0>>, <<N - 1, N - 1>>}
  /\ At(board, applied[1][2]) # <<>>
  /\ At(board, applied[1][2])[1].piece = "Knight"
  /\ touched # {}

\* the position of offset d in the direction table of kind p
OffsetIndex(p, d) ==
  CHOOSE k \in 1 .. Len(directions(p)) : directions(p)[k] = d

\* generation order: by source row, then source column, then the position of
\* the offset in the direction table of the piece on the source square
Before(b, m1, m2) ==
  LET p == At(b, m1[1])[1].piece
      k1 == OffsetIndex(p, <<m1[2][1] - m1[1][1], m1[2][2] - m1[1][2]>>)
      k2 == OffsetIndex(p, <<m2[2][1] - m2[1][1], m2[2][2] - m2[1][2]>>)
  IN  \/ m1[1][1] < m2[1][1]
      \/ m1[1][1] = m2[1][1] /\ m1[1][2] < m2[1][2]
      \/ m1[1] = m2[1] /\ k1 < k2

\* the move of StepMoves(b, t) that comes first in generation order
FirstStep(b, t) ==
  CHOOSE m \in StepMoves(b, t) : \A o \in StepMoves(b, t) : o = m \/ Before(b, m, o)

\* C7: the candidates are listed in generation order, the generator returns
\* the first of them, and the move the loop applies is that one.
C7_FirstCandidate ==
  [][pc = "move" =>
       /\ \A k \in 1 .. Len(cands) - 1 : Before(board, cands[k], cands[k + 1])
       /\ mv = <<FirstStep(board, turn)>>
       /\ mv' = mv
       /\ applied' = mv
       /\ At(board', mv[1][2]) = At(board, mv[1][1])]_vars

\* C7 witness: a move has been applied that was chosen among candidates from
\* more than one source square, more than one of them from the first
C7_Witness ==
  /\ pc = "time_check"
  /\ applied # <<>>
  /\ applied = mv
  /\ Len(cands) > 2
  /\ cands[1][1] = cands[2][1]
  /\ cands[Len(cands)][1] # cands[1][1]

\* C8: the candidates are exactly the single-offset moves of the side to move
\* that stay on the board and do not land on a piece of that side, so the
\* generator returns None exactly when there is no such move.
C8_NoneIffNoStep ==
  (pc = "move" \/ (pc = "done" /\ log # <<>> /\ log[Len(log)] = "get_ai_move")) =>
    /\ Range(cands) = StepMoves(board, turn)
    /\ mv = <<>> <=> StepMoves(board, turn) = {}

\* C8 witness: the generator has returned None for a side whose eight pawns
\* fill a column and block one another
C8_Witness ==
  /\ pc = "done"
  /\ log # <<>>
  /\ log[Len(log)] = "get_ai_move"
  /\ mv = <<>>
  /\ PieceCount(board) = N
  /\ \A sq \in Squares : At(board, sq) # <<>> => Holds(board, sq, turn)

\* C9: make_move on (src, dst) with src # dst leaves at dst what was at src
\* and leaves src empty, whatever was at dst.
C9_MakeMove ==
  [][(pc = "idle" /\ applied' # <<>> /\ applied'[1][1] # applied'[1][2]) =>
       /\ At(board', applied'[1][2]) = At(board, applied'[1][1])
       /\ At(board', applied'[1][1]) = <<>>]_vars

\* C9 witness: make_move has put a piece on a square that held another piece,
\* which is gone: of the 32 pieces of the initial board 31 are left
C9_Witness ==
  /\ pc = "returned"
  /\ applied # <<>>
  /\ applied[1][1] # applied[1][2]
  /\ At(board, applied[1][2]) # <<>>
  /\ At(NewBoard, applied[1][2]) # <<>>
  /\ At(NewBoard, applied[1][2]) # At(board, applied[1][2])
  /\ PieceCount(board) = 31

\* C10: White is to move exactly when the number of applied moves is even,
\* Black exactly when it is odd, and the side to move changes in the step
\* that applies a move and in no other.
C10_Alternation ==
  /\ [](turn = IF move_count % 2 = 0 THEN "White" ELSE "Black")
  /\ [][turn' # turn =>
          /\ pc = "move"
          /\ move_count' = move_count + 1
          /\ applied' # <<>>
          /\ board' # board]_vars
  /\ [][(move_count' # move_count \/ board' # board) => turn' # turn]_vars

\* C10 witness: three moves applied, Black to move
C10_Witness ==
  /\ move_count = 3
  /\ turn = "Black"
  /\ pc = "display"

\* C11: no message is printed while the loop runs, exactly one has been
\* printed when it has ended, and after the message nothing changes: no
\* render, no move, no turn switch, no second message.
C11_OneMessage ==
  /\ [](/\ Len(msgs) <= 1
        /\ pc = "done" <=> Len(msgs) = 1
        /\ msgs # <<>> =>
             msgs[1].kind \in {"time_limit", "move_limit", "checkmate", "no_moves"})
  /\ [][msgs # <<>> => UNCHANGED vars]_vars
  /\ [][msgs' # msgs => (msgs = <<>> /\ pc' = "done" /\ renders' = renders
                          /\ board' = board /\ turn' = turn)]_vars

\* C11 witness: the loop has ended after applied moves with its one message
C11_Witness ==
  /\ pc = "done"
  /\ Len(msgs) = 1
  /\ move_count = MaxMoveLimit
  /\ renders = MaxMoveLimit
  /\ msgs[1].kind = "move_limit"

\* the back rank as the specification lists it, columns 0 to 7
BackRankKinds ==
  <<"Rook", "Knight", "Bishop", "Queen", "King", "Bishop", "Knight", "Rook">>

\* C12: before any move is applied the game created by Game::new has Black
\* pawns on row 1, White pawns on row 6, the back rank Rook, Knight, Bishop,
\* Queen, King, Bishop, Knight, Rook as Black on row 0 and as White on row 7,
\* rows 2 to 5 empty, and White to move.
C12_InitialSetup ==
  move_count = 0 =>
    /\ \A j \in Idx :
         /\ board[1][j] = <<[piece |-> "Pawn", color |-> "Black"]>>
         /\ board[6][j] = <<[piece |-> "Pawn", color |-> "White"]>>
         /\ board[0][j] = <<[piece |-> BackRankKinds[j + 1], color |-> "Black"]>>
         /\ board[7][j] = <<[piece |-> BackRankKinds[j + 1], color |-> "White"]>>
         /\ \A i \in 2 .. 5 : board[i][j] = <<>>
    /\ turn = "White"

\* C12 witness: the game as created, play entered and nothing done yet
C12_Witness ==
  /\ pc = "time_check"
  /\ log = <<>>
  /\ move_count = 0
  /\ applied = <<>>
  /\ renders = 0

C14_NoMovesBranchDead ==
  /\ \A k \in 1 .. Len(msgs) : msgs[k].kind # "no_moves"
  /\ pc = "move" => (cands # <<>> /\ mv # <<>>)
  /\ (log # <<>> /\ log[Len(log)] = "get_ai_move" /\ cands = <<>>) =>
        (pc = "done" /\ Len(msgs) = 1 /\ msgs[1].kind = "checkmate")

\* C14 witness: the generator has returned None for Black and the loop has
\* ended through the checkmate branch
C14_Witness ==
  /\ pc = "done"
  /\ turn = "Black"
  /\ cands = <<>>
  /\ mv = <<>>
  /\ log = <<"time_check", "move_check", "display", "get_ai_move">>
  /\ msgs = <<CheckmateMsg("White")>>

\* C15: the move counter never exceeds move_limit, it changes only in the
\* step that ends an iteration without ending the loop and then by exactly
\* one, and every run of play ends, whether or not the time limit is reached.
C15_Terminates ==
  /\ [](move_count <= move_limit)
  /\ [][pc' = "time_check" => (pc = "move" /\ move_count' = move_count + 1)]_vars
  /\ [][move_count' # move_count => pc' = "time_check"]_vars
  /\ <>(pc = "done")

\* C15 witness: with the time limit out of reach the loop has ended after
\* move_limit applied moves
C15_Witness ==
  /\ pc = "done"
  /\ game_limit = DefaultGameLimit
  /\ move_limit = DefaultMoveLimit
  /\ move_count = move_limit
  /\ elapsed < game_limit

\* C16: in a game started from the initial setup the generator has a move
\* for the side to move in every state, no run ends by checkmate, and a run
\* that ends without the time limit reached has ended on the move limit after
\* exactly move_limit applied moves.
C16_NeverCheckmate ==
  /\ get_ai_move(board, turn) # <<>>
  /\ \A k \in 1 .. Len(msgs) : msgs[k].kind \in {"time_limit", "move_limit"}
  /\ (pc = "done" /\ elapsed < game_limit) =>
        (msgs = <<MoveLimitMsg(move_limit)>> /\ move_count = move_limit)

\* C16 witness: forty moves applied and the loop ended on the move limit
C16_Witness ==
  /\ pc = "done"
  /\ move_count = DefaultMoveLimit
  /\ msgs = <<MoveLimitMsg(DefaultMoveLimit)>>
  /\ renders = DefaultMoveLimit

\* the number of pieces of colour c on b
CountOf(b, c) == Cardinality({sq \in Squares : Holds(b, sq, c)})

HasKing(b, c) ==
  \E sq \in Squares : At(b, sq) = <<[piece |-> "King", color |-> c]>>

\* C17: in a game started from the initial setup every state has 16 White
\* and 16 Black pieces, both kings among them, and every move the loop
\* applies goes to an empty square.
C17_NoCapture ==
  /\ [](/\ CountOf(board, "White") = 16
        /\ CountOf(board, "Black") = 16
        /\ HasKing(board, "White")
        /\ HasKing(board, "Black"))
  /\ [][applied' # applied =>
          (applied' # <<>> /\ At(board, applied'[1][2]) = <<>>)]_vars

\* C17 witness: forty moves have been applied and the board is not the
\* initial one
C17_Witness ==
  /\ move_count = DefaultMoveLimit
  /\ applied # <<>>
  /\ board # NewBoard
  /\ PieceCount(board) = 32

\* C18: a run stopped by the time limit or the move limit has rendered the
\* board as often as it has applied moves, a run stopped by checkmate once
\* more; within an iteration the render comes before the move is applied.
C18_Renders ==
  /\ (pc = "done" /\ msgs # <<>> /\ msgs[1].kind \in {"time_limit", "move_limit"}) =>
        renders = move_count
  /\ (pc = "done" /\ msgs # <<>> /\ msgs[1].kind = "checkmate") =>
        renders = move_count + 1
  /\ pc \in {"checkmate", "move"} => renders = move_count + 1
  /\ pc \in {"time_check", "move_check", "display"} => renders = move_count
  /\ \A k \in 1 .. Len(log) :
        log[k] = "make_move" => \E j \in 1 .. k - 1 : log[j] = "display"

\* C18 witness: a run stopped by checkmate after one applied move and two
\* renders
C18_Witness ==
  /\ pc = "done"
  /\ msgs # <<>>
  /\ msgs[1].kind = "checkmate"
  /\ move_count = 1
  /\ renders = 2

\* C19: make_move leaves the side to move and every square other than source
\* and destination as they are; switch_turn changes the side to move and
\* leaves the board as it is; and a move the generator produces, once made,
\* leaves the mover's number of pieces as it is and lowers the other side's
\* by at most one.
C19_Frame ==
  [][/\ (pc = "idle" /\ applied' # <<>>) =>
          /\ turn' = turn
          /\ \A sq \in Squares \ {applied'[1][1], applied'[1][2]} :
                At(board', sq) = At(board, sq)
          /\ (Holds(board, applied'[1][1], turn)
                /\ applied'[1] \in Range(moves(board, turn))) =>
                /\ CountOf(board', turn) = CountOf(board, turn)
                /\ CountOf(board, OtherSide(turn)) - CountOf(board', OtherSide(turn))
                     \in {0, 1}
     /\ (pc = "idle" /\ log' = <<"switch_turn">>) =>
          /\ board' = board
          /\ turn' = OtherSide(turn)
          /\ move_count' = move_count]_vars

\* C19 witness: make_move has made a move the generator produces for Black on
\* the initial board with a Black knight added on (4, 4), a capture
C19_Witness ==
  /\ pc = "returned"
  /\ turn = "Black"
  /\ applied = << << <<4, 4>>, <<6, 3>> >> >>
  /\ At(board, <<6, 3>>) = <<[piece |-> "Knight", color |-> "Black"]>>
  /\ CountOf(board, "White") = 15
  /\ CountOf(board, "Black") = 17

====
